---- MODULE Spec2Model ----
(***************************************************************************)
(* summavi: the moving_window generator (src/summavi/window.py) and the    *)
(* Settings loader (src/summavi/settings.py) as state machines.            *)
(*                                                                         *)
(* Python's None is the empty tuple <<>>, a present value v is <<v>>.      *)
(* Series positions are Python's (0-based); time[i] of the code is         *)
(* time[i + 1] of the TLA+ sequence.                                       *)
(***************************************************************************)
EXTENDS Integers, Sequences, FiniteSets, TLC

\* ------------------------------------------------------------------ bounds
\* longest generated time series
MaxLen == 3
\* largest generated timestamp
MaxTime == 4
\* largest generated window_length and time_step
MaxStep == 3
\* how far outside [0, MaxTime] a generated time0 may lie
OriginSpan == 2
\* how many calls of the aggregation function may raise in one run
MaxFails == 1

None == <<>>

VARIABLES
    time, signal, window_length, time_step, time0, pass_time_in_window,
    window_begin_time, window_end_time, function_output, pc,
    out, tested, calls,
    memoized_yaml, files, last_call,
    frames, pulled, raises_on

window_args == <<time, signal, window_length, time_step, time0, pass_time_in_window>>
window_locals == <<window_begin_time, window_end_time, function_output, pc>>
window_history == <<out, tested, calls>>
window_vars == <<window_args, window_locals, window_history>>
settings_vars == <<memoized_yaml, files, last_call>>
twin_vars == <<frames, pulled, raises_on>>
vars == <<window_vars, settings_vars, twin_vars>>

\* ------------------------------------------------- moving_window: helpers

Min(S) == CHOOSE x \in S : \A y \in S : x <= y
Max(S) == CHOOSE x \in S : \A y \in S : y <= x

\* time[0] and time[-1]
First(t) == t[1]
Last(t) == t[Len(t)]

\* if time0 is None: time0 = time[0]
ResolveOrigin(t0, t) == IF t0 = None THEN First(t) ELSE t0[1]

\* while window_end_time < time[0]
FastForwardCondLe(e, t) == e <= First(t)
FastForwardCond(e, t) == e < First(t)

\* window_begin_time += time_step ; window_end_time += time_step
WindowAdvanceByOne(x, step) == x + 1
WindowAdvance(x, step) == x + step

\* np.where((time >= window_begin_time) & (time < window_end_time))[0]
WindowIndicesClosed(t, b, e) == {i \in 0 .. Len(t) - 1 : t[i + 1] >= b /\ t[i + 1] <= e}
WindowIndices(t, b, e) == {i \in 0 .. Len(t) - 1 : t[i + 1] >= b /\ t[i + 1] < e}

\* if len(window_indices) != 0
HasDataSeveral(idx) == Cardinality(idx) > 1
HasData(idx) == Cardinality(idx) # 0

\* window_indices[0], window_indices[-1] (np.where returns ascending positions)
FirstIndex(idx) == Min(idx)
LastIndex(idx) == Max(idx)

\* the Python slice seq[:k] for 0 <= k <= len(seq): positions 0 .. k-1
PrefixThrough(seq, k) == SubSeq(seq, 1, k + 1)
Prefix(seq, k) == SubSeq(seq, 1, k)

\* the positional arguments of the call: (time[:k], signal[:k]) or (signal[:k])
CallArgs(pass_time, t, s, k) ==
    [time_arg |-> IF pass_time THEN <<Prefix(t, k)>> ELSE None,
     signal_arg |-> Prefix(s, k)]

\* the aggregation function of the runs: Python's sum over the value slice
RECURSIVE Sum(_)
Sum(seq) == IF seq = <<>> THEN 0 ELSE seq[1] + Sum(Tail(seq))

Function(args) == Sum(args.signal_arg)

\* except: function_output = None
OnRaiseKeep(previous_output) == previous_output
OnRaise(previous_output) == None

\* if window_end_time < time[-1]: move on, else: stop
MoveOnLe(e, t) == e <= Last(t)
MoveOn(e, t) == e < Last(t)

Descriptor(b, e, idx, result) ==
    [begin_time |-> b, end_time |-> e,
     begin_index |-> FirstIndex(idx), end_index |-> LastIndex(idx),
     result |-> result]

\* ---------------------------------------------------- moving_window: inputs

SortedSeries(n) ==
    {t \in [1 .. n -> 0 .. MaxTime] : \A i \in 1 .. n - 1 : t[i] <= t[i + 1]}

GeneratedTimes == UNION {SortedSeries(n) : n \in 1 .. MaxLen}

GeneratedOrigins == {None} \cup {<<o>> : o \in (0 - OriginSpan) .. (MaxTime + OriginSpan)}

ScenarioTime == <<0, 1, 2, 3, 10, 11, 12>>
ScenarioSignal == <<1, 2, 3, 4, 5, 6, 7>>

GeneratedArgs ==
    /\ time \in GeneratedTimes
    /\ signal = [i \in 1 .. Len(time) |-> i]
    /\ window_length \in 1 .. MaxStep
    /\ time_step \in 1 .. MaxStep
    /\ time0 \in GeneratedOrigins
    /\ pass_time_in_window \in BOOLEAN

ScenarioA ==
    /\ time = ScenarioTime
    /\ signal = ScenarioSignal
    /\ window_length = 3
    /\ time_step = 3
    /\ time0 = <<0>>
    /\ pass_time_in_window = FALSE

ScenarioB ==
    /\ time = ScenarioTime
    /\ signal = ScenarioSignal
    /\ window_length = 1
    /\ time_step = 1
    /\ time0 = <<0 - 100>>
    /\ pass_time_in_window = FALSE

WindowInit ==
    /\ GeneratedArgs \/ ScenarioA \/ ScenarioB
    /\ window_begin_time = 0
    /\ window_end_time = 0
    /\ function_output = None
    /\ pc = "start"
    /\ out = <<>>
    /\ tested = <<>>
    /\ calls = <<>>

\* --------------------------------------------------- moving_window: actions

\* first next(): lines 39-46
Begin ==
    /\ pc = "start"
    /\ window_begin_time' = ResolveOrigin(time0, time)
    /\ window_end_time' = ResolveOrigin(time0, time) + window_length
    /\ function_output' = None
    /\ pc' = "fast_forward"
    /\ UNCHANGED <<window_args, window_history>>
    /\ UNCHANGED <<settings_vars, twin_vars>>

\* one pass of the fast-forward loop: lines 48-51
FastForward ==
    /\ pc = "fast_forward"
    /\ FastForwardCond(window_end_time, time)
    /\ window_begin_time' = WindowAdvance(window_begin_time, time_step)
    /\ window_end_time' = WindowAdvance(window_end_time, time_step)
    /\ UNCHANGED <<window_args, window_history, function_output, pc>>
    /\ UNCHANGED <<settings_vars, twin_vars>>

\* the fast-forward loop ends: lines 48, 57-60
Aligned ==
    /\ pc = "fast_forward"
    /\ ~FastForwardCond(window_end_time, time)
    /\ pc' = "test"
    /\ UNCHANGED <<window_args, window_history, window_begin_time, window_end_time,
                   function_output>>
    /\ UNCHANGED <<settings_vars, twin_vars>>

TestedWindow(idx) == [b |-> window_begin_time, e |-> window_end_time, idx |-> idx]

\* a window without data: lines 62-64, nothing is yielded
SkipWindow ==
    /\ pc = "test"
    /\ LET idx == WindowIndices(time, window_begin_time, window_end_time) IN
        /\ ~HasData(idx)
        /\ tested' = Append(tested, TestedWindow(idx))
    /\ pc' = "check"
    /\ UNCHANGED <<window_args, window_begin_time, window_end_time, function_output,
                   out, calls>>
    /\ UNCHANGED <<settings_vars, twin_vars>>

Raised == Len(SelectSeq(calls, LAMBDA c : c.raised))

\* a window with data, the function returns: lines 62-77, 82
CallReturns ==
    /\ pc = "test"
    /\ LET idx == WindowIndices(time, window_begin_time, window_end_time) IN
        /\ HasData(idx)
        /\ LET args == CallArgs(pass_time_in_window, time, signal, LastIndex(idx))
               result == <<Function(args)>>
           IN
            /\ calls' = Append(calls, [args |-> args, raised |-> FALSE])
            /\ function_output' = result
            /\ out' = Append(out, Descriptor(window_begin_time, window_end_time, idx, result))
        /\ tested' = Append(tested, TestedWindow(idx))
    /\ pc' = "check"
    /\ UNCHANGED <<window_args, window_begin_time, window_end_time>>
    /\ UNCHANGED <<settings_vars, twin_vars>>

\* a window with data, the function raises: lines 62-82
CallRaises ==
    /\ pc = "test"
    /\ Raised < MaxFails
    /\ LET idx == WindowIndices(time, window_begin_time, window_end_time) IN
        /\ HasData(idx)
        /\ LET args == CallArgs(pass_time_in_window, time, signal, LastIndex(idx))
               result == OnRaise(function_output)
           IN
            /\ calls' = Append(calls, [args |-> args, raised |-> TRUE])
            /\ function_output' = result
            /\ out' = Append(out, Descriptor(window_begin_time, window_end_time, idx, result))
        /\ tested' = Append(tested, TestedWindow(idx))
    /\ pc' = "check"
    /\ UNCHANGED <<window_args, window_begin_time, window_end_time>>
    /\ UNCHANGED <<settings_vars, twin_vars>>

\* the window has not reached the last time point: lines 87-90
MoveWindow ==
    /\ pc = "check"
    /\ MoveOn(window_end_time, time)
    /\ window_begin_time' = WindowAdvance(window_begin_time, time_step)
    /\ window_end_time' = WindowAdvance(window_end_time, time_step)
    /\ pc' = "test"
    /\ UNCHANGED <<window_args, window_history, function_output>>
    /\ UNCHANGED <<settings_vars, twin_vars>>

\* the window has reached the last time point: lines 92-94, the generator ends
StopWindow ==
    /\ pc = "check"
    /\ ~MoveOn(window_end_time, time)
    /\ pc' = "done"
    /\ UNCHANGED <<window_args, window_history, window_begin_time, window_end_time,
                   function_output>>
    /\ UNCHANGED <<settings_vars, twin_vars>>

Next ==
    \/ Begin
    \/ FastForward
    \/ Aligned
    \/ SkipWindow
    \/ CallReturns
    \/ CallRaises
    \/ MoveWindow
    \/ StopWindow

\* ------------------------------------------------------- Settings: values

\* A parsed YAML value: None ("null"), a non-zero number ("scalar"), a list
\* of strings ("list", each item's name an element), or a mapping ("map")
\* whose items are <<[name, value], ...>>.
NullValue == [kind |-> "null", items |-> <<>>]
ScalarValue == [kind |-> "scalar", items |-> <<>>]
Item(name, value) == [name |-> name, value |-> value]
ListValue(names) == [kind |-> "list", items |-> [i \in 1 .. Len(names) |-> Item(names[i], NullValue)]]
MapValue(items) == [kind |-> "map", items |-> items]

\* Python's truth value of a parsed value
Truthy(v) == v.kind = "scalar" \/ v.items # <<>>

\* name in value (a mapping's keys, a list's elements), mapping[name]
HasKey(v, name) == \E i \in 1 .. Len(v.items) : v.items[i].name = name
Lookup(v, name) == v.items[CHOOSE i \in 1 .. Len(v.items) : v.items[i].name = name].value

Filenames == {"settings.yaml", "user.yaml"}
DefinedGroup == "Power Duration Curve"
GroupNames == {None, <<"">>, <<DefinedGroup>>, <<"Other">>}

GroupValues ==
    {NullValue, ScalarValue, MapValue(<<>>), MapValue(<<Item("TIME_GRANULARITY", ScalarValue)>>)}

Documents ==
    {NullValue, ScalarValue, ListValue(<<DefinedGroup>>), MapValue(<<>>)}
        \cup {MapValue(<<Item(DefinedGroup, g)>>) : g \in GroupValues}

\* what is on disk under a filename
MissingFile == [state |-> "missing", document |-> NullValue]
MalformedFile == [state |-> "malformed", document |-> NullValue]
YamlFile(doc) == [state |-> "yaml", document |-> doc]
FileContents == {MissingFile, MalformedFile} \cup {YamlFile(d) : d \in Documents}

\* ---------------------------------------------------- Settings: operations

\* filename in cls.__memoized_yaml
Memoized(memo, filename) == memo[filename] # None

\* if force or filename not in cls.__memoized_yaml
NeedsParseAlways(memo, filename, force) == TRUE
NeedsParse(memo, filename, force) == force \/ ~Memoized(memo, filename)

\* a call that ends in an exception; opened: open(filename) was called,
\* parsed: yaml.load returned a document
Raise(error, memo) ==
    [outcome |-> error, value |-> NullValue, memo |-> memo, opened |-> FALSE, parsed |-> FALSE]

\* Settings.read_configuration_file
ReadConfigurationFile(memo, fs, filename, force) ==
    IF NeedsParse(memo, filename, force)
    THEN CASE fs[filename].state = "missing" ->
                [Raise("FileNotFoundError", memo) EXCEPT !.opened = TRUE]
           [] fs[filename].state = "malformed" ->
                [Raise("SettingsError", memo) EXCEPT !.opened = TRUE]
           [] OTHER ->
                [outcome |-> "return", value |-> fs[filename].document,
                 memo |-> [memo EXCEPT ![filename] = <<fs[filename].document>>],
                 opened |-> TRUE, parsed |-> TRUE]
    ELSE [outcome |-> "return", value |-> memo[filename][1], memo |-> memo,
          opened |-> FALSE, parsed |-> FALSE]

\* if not yaml_document_global / if not yaml_document_global[group_name]
IsEmptyNever(v) == FALSE
IsEmpty(v) == ~Truthy(v)

\* value.items() of a value that is no mapping raises AttributeError
Items(v, read) ==
    IF v.kind = "map"
    THEN [read EXCEPT !.value = v]
    ELSE [read EXCEPT !.outcome = "AttributeError", !.value = NullValue]

\* Settings.load, from the resolved yaml_location / filename on
Load(memo, fs, group_name, filename, force) ==
    LET read == ReadConfigurationFile(memo, fs, filename, force)
        doc == read.value
        failed(error) == [read EXCEPT !.outcome = error, !.value = NullValue]
    IN
    CASE read.outcome = "FileNotFoundError" -> failed("SettingsError")
      [] read.outcome = "SettingsError" -> read
      [] IsEmpty(doc) -> failed("SettingsError")
      [] group_name \in {None, <<"">>} -> Items(doc, read)
      [] doc.kind = "scalar" -> failed("TypeError")
      [] ~HasKey(doc, group_name[1]) -> failed("SettingsError")
      [] doc.kind = "list" -> failed("TypeError")
      [] IsEmpty(Lookup(doc, group_name[1])) -> failed("SettingsError")
      [] OTHER -> Items(Lookup(doc, group_name[1]), read)

Call(op, group_name, filename, force, result) ==
    [op |-> op, group_name |-> group_name, filename |-> filename, force |-> force,
     file |-> files[filename], memoized |-> memoized_yaml[filename],
     outcome |-> result.outcome, value |-> result.value,
     opened |-> result.opened, parsed |-> result.parsed]

SettingsInit ==
    /\ memoized_yaml = [f \in Filenames |-> None]
    /\ files \in [Filenames -> {MissingFile, YamlFile(MapValue(<<>>))}]
    /\ last_call = None

\* a caller calls Settings.load(group_name, filename, force=force)
LoadCall ==
    \E group_name \in GroupNames, filename \in Filenames, force \in BOOLEAN :
        LET result == Load(memoized_yaml, files, group_name, filename, force) IN
        /\ memoized_yaml' = result.memo
        /\ last_call' = <<Call("load", group_name, filename, force, result)>>
        /\ UNCHANGED <<files, window_vars, twin_vars>>

\* a caller calls Settings.read_configuration_file(filename, force=force)
ReadCall ==
    \E filename \in Filenames, force \in BOOLEAN :
        LET result == ReadConfigurationFile(memoized_yaml, files, filename, force) IN
        /\ memoized_yaml' = result.memo
        /\ last_call' = <<Call("read", None, filename, force, result)>>
        /\ UNCHANGED <<files, window_vars, twin_vars>>

\* the environment writes, replaces or deletes a settings file; last_call
\* describes a call only as long as the files are those the call saw
FileChanges ==
    \E filename \in Filenames, content \in FileContents :
        /\ files[filename] # content
        /\ files' = [files EXCEPT ![filename] = content]
        /\ last_call' = None
        /\ UNCHANGED <<memoized_yaml, window_vars, twin_vars>>

\* ------------------------------------- moving_window: two calls, same arguments

\* two calls of moving_window(time, signal, window_length, time_step, function,
\* time0, pass_time_in_window) with the same arguments; each call's generator
\* is pulled by its own consumer, the steps of the two interleave freely
Generators == {1, 2}

\* the frame holding the locals of a call: every call has its own
SharedFrame(g) == 1
Frame(g) == g

NewFrame ==
    [window_begin_time |-> 0, window_end_time |-> 0, function_output |-> None, pc |-> "start"]

\* a pure function raises on the same arguments in every call
PureRaises(args) == Len(args.signal_arg) \in raises_on

TwinArgs ==
    /\ time \in GeneratedTimes
    /\ signal = [i \in 1 .. Len(time) |-> i]
    /\ window_length \in 1 .. MaxStep
    /\ time_step \in 1 .. MaxStep
    /\ time0 \in {None, <<0 - 1>>}
    /\ pass_time_in_window \in BOOLEAN

TwinIdle ==
    /\ frames = [g \in Generators |-> NewFrame]
    /\ pulled = [g \in Generators |-> <<>>]
    /\ raises_on = {}

TwinInit ==
    /\ TwinArgs
    /\ frames = [g \in Generators |-> NewFrame]
    /\ pulled = [g \in Generators |-> <<>>]
    /\ raises_on \in {{}, {1}}
    /\ memoized_yaml = [f \in Filenames |-> None]
    /\ files = [f \in Filenames |-> MissingFile]
    /\ last_call = None
    /\ window_begin_time = 0
    /\ window_end_time = 0
    /\ function_output = None
    /\ pc = "start"
    /\ out = <<>>
    /\ tested = <<>>
    /\ calls = <<>>

TwinFrameOnly == <<window_vars, settings_vars, pulled, raises_on>>

\* lines 39-46
TwinBegin(g) ==
    LET f == frames[Frame(g)] IN
    /\ f.pc = "start"
    /\ frames' = [frames EXCEPT ![Frame(g)] =
            [window_begin_time |-> ResolveOrigin(time0, time),
             window_end_time |-> ResolveOrigin(time0, time) + window_length,
             function_output |-> None,
             pc |-> "fast_forward"]]
    /\ UNCHANGED TwinFrameOnly

\* lines 48-51
TwinFastForward(g) ==
    LET f == frames[Frame(g)] IN
    /\ f.pc = "fast_forward"
    /\ FastForwardCond(f.window_end_time, time)
    /\ frames' = [frames EXCEPT ![Frame(g)] =
            [f EXCEPT !.window_begin_time = WindowAdvance(f.window_begin_time, time_step),
                      !.window_end_time = WindowAdvance(f.window_end_time, time_step)]]
    /\ UNCHANGED TwinFrameOnly

\* lines 48, 57-60
TwinAligned(g) ==
    LET f == frames[Frame(g)] IN
    /\ f.pc = "fast_forward"
    /\ ~FastForwardCond(f.window_end_time, time)
    /\ frames' = [frames EXCEPT ![Frame(g)] = [f EXCEPT !.pc = "test"]]
    /\ UNCHANGED TwinFrameOnly

\* lines 62-64: a window without data
TwinSkipWindow(g) ==
    LET f == frames[Frame(g)] IN
    /\ f.pc = "test"
    /\ ~HasData(WindowIndices(time, f.window_begin_time, f.window_end_time))
    /\ frames' = [frames EXCEPT ![Frame(g)] = [f EXCEPT !.pc = "check"]]
    /\ UNCHANGED TwinFrameOnly

\* lines 62-82: a window with data, the call returns or raises, the tuple is
\* yielded to the consumer of this generator
TwinCall(g) ==
    LET f == frames[Frame(g)]
        idx == WindowIndices(time, f.window_begin_time, f.window_end_time)
    IN
    /\ f.pc = "test"
    /\ HasData(idx)
    /\ LET args == CallArgs(pass_time_in_window, time, signal, LastIndex(idx))
           result == IF PureRaises(args) THEN OnRaise(f.function_output)
                     ELSE <<Function(args)>>
       IN
        /\ frames' = [frames EXCEPT ![Frame(g)] =
                [f EXCEPT !.function_output = result, !.pc = "check"]]
        /\ pulled' = [pulled EXCEPT ![g] =
                Append(@, Descriptor(f.window_begin_time, f.window_end_time, idx, result))]
    /\ UNCHANGED <<window_vars, settings_vars, raises_on>>

\* lines 87-90
TwinMoveWindow(g) ==
    LET f == frames[Frame(g)] IN
    /\ f.pc = "check"
    /\ MoveOn(f.window_end_time, time)
    /\ frames' = [frames EXCEPT ![Frame(g)] =
            [f EXCEPT !.window_begin_time = WindowAdvance(f.window_begin_time, time_step),
                      !.window_end_time = WindowAdvance(f.window_end_time, time_step),
                      !.pc = "test"]]
    /\ UNCHANGED TwinFrameOnly

\* lines 92-94
TwinStopWindow(g) ==
    LET f == frames[Frame(g)] IN
    /\ f.pc = "check"
    /\ ~MoveOn(f.window_end_time, time)
    /\ frames' = [frames EXCEPT ![Frame(g)] = [f EXCEPT !.pc = "done"]]
    /\ UNCHANGED TwinFrameOnly

TwinNext ==
    \/ \E g \in Generators : TwinBegin(g)
    \/ \E g \in Generators : TwinFastForward(g)
    \/ \E g \in Generators : TwinAligned(g)
    \/ \E g \in Generators : TwinSkipWindow(g)
    \/ \E g \in Generators : TwinCall(g)
    \/ \E g \in Generators : TwinMoveWindow(g)
    \/ \E g \in Generators : TwinStopWindow(g)

\* ------------------------------------------------------------ specification

SettingsIdle ==
    /\ memoized_yaml = [f \in Filenames |-> None]
    /\ files = [f \in Filenames |-> MissingFile]
    /\ last_call = None

WindowIdle ==
    /\ ScenarioA
    /\ window_begin_time = 0
    /\ window_end_time = 0
    /\ function_output = None
    /\ pc = "start"
    /\ out = <<>>
    /\ tested = <<>>
    /\ calls = <<>>

Init == WindowInit /\ SettingsIdle /\ TwinIdle

\* moving_window runs, one generator per behaviour
Spec == Init /\ [][Next]_vars

\* a consumer that keeps pulling: every enabled step of the generator is taken
FairSpec == Spec /\ WF_vars(Next)

SettingsSpecInit == SettingsInit /\ WindowIdle /\ TwinIdle

\* two generators over the same arguments, pulled in any interleaving
TwinSpec == TwinInit /\ [][TwinNext]_vars

SettingsSpecNext ==
    \/ LoadCall
    \/ ReadCall
    \/ FileChanges

\* calls of the Settings class of one process, with the files changing
SettingsSpec == SettingsSpecInit /\ [][SettingsSpecNext]_vars

\* ------------------------------------------------------------------ claims

Emitted == {out[j] : j \in 1 .. Len(out)}
TimeAt(i) == time[i + 1]
LastPosition == Len(time) - 1
\* the index set of a half-open interval, stated on the series itself
InInterval(i, b, e) == b <= TimeAt(i) /\ TimeAt(i) < e
NonEmptyTested == SelectSeq(tested, LAMBDA w : \E i \in 0 .. LastPosition : InInterval(i, w.b, w.e))

\* C1: every emitted descriptor has begin_index <= end_index, and every
\* position from begin_index to end_index holds a timestamp in
\* [begin_time, end_time).
C1_DescriptorCoversItsIndices ==
    \A d \in Emitted :
        /\ d.begin_index <= d.end_index
        /\ \A i \in d.begin_index .. d.end_index : InInterval(i, d.begin_time, d.end_time)

C1_Witness ==
    /\ pc = "done"
    /\ \E d \in Emitted : d.begin_index < d.end_index
    /\ \E d \in Emitted : d.begin_index = d.end_index

IsScenarioA == ScenarioA

ScenarioADescriptor(b, e, bi, ei, r) ==
    [begin_time |-> b, end_time |-> e, begin_index |-> bi, end_index |-> ei, result |-> <<r>>]

\* C2: in Scenario A (no call raising) the generator emits exactly
\* (0,3,0,2,3), (3,6,3,3,6), (9,12,4,5,15), (12,15,6,6,21), skipping [6,9),
\* and stops after the window [12,15).
C2_ScenarioAFourDescriptors ==
    (IsScenarioA /\ pc = "done" /\ Raised = 0) =>
        /\ out = << ScenarioADescriptor(0, 3, 0, 2, 3),
                    ScenarioADescriptor(3, 6, 3, 3, 6),
                    ScenarioADescriptor(9, 12, 4, 5, 15),
                    ScenarioADescriptor(12, 15, 6, 6, 21) >>
        /\ tested[Len(tested)].b = 12
        /\ tested[Len(tested)].e = 15

\* what the code emits in Scenario A: the run ends with the window [9,12)
C2_CodeEmitsThree ==
    (IsScenarioA /\ pc = "done" /\ Raised = 0) =>
        /\ out = << ScenarioADescriptor(0, 3, 0, 2, 3),
                    ScenarioADescriptor(3, 6, 3, 3, 6),
                    ScenarioADescriptor(9, 12, 4, 5, 15) >>
        /\ tested[Len(tested)].b = 9
        /\ tested[Len(tested)].e = 12

\* C3: a raising call is not propagated: its window's descriptor is emitted
\* with the window's times and indices and the result None, a call that
\* returns has its own sum as result, and a failure neither ends the run nor
\* changes which windows follow: each tested window is one time_step after
\* the one before it, and the run ends only at a window whose end time has
\* reached the last timestamp.
C3_FailureIsContained ==
    /\ Len(out) = Len(calls)
    /\ Len(out) = Len(NonEmptyTested)
    /\ \A j \in 1 .. Len(out) :
        /\ out[j].begin_time = NonEmptyTested[j].b
        /\ out[j].end_time = NonEmptyTested[j].e
        /\ \A i \in 0 .. LastPosition :
            (out[j].begin_index <= i /\ i <= out[j].end_index)
                <=> InInterval(i, NonEmptyTested[j].b, NonEmptyTested[j].e)
        /\ calls[j].raised => out[j].result = None
        /\ ~calls[j].raised => out[j].result = <<Sum(calls[j].args.signal_arg)>>
    /\ \A j \in 1 .. Len(tested) - 1 :
        /\ tested[j + 1].b = tested[j].b + time_step
        /\ tested[j + 1].e = tested[j].e + time_step
    /\ pc = "done" => (tested # <<>> /\ tested[Len(tested)].e >= Last(time))
    /\ (pc \in {"check", "test"} /\ tested # <<>> /\ tested[Len(tested)].e < Last(time))
        => ENABLED (MoveWindow \/ SkipWindow \/ CallReturns)

C3_Witness ==
    /\ pc = "done"
    /\ \E j \in 1 .. Len(calls) - 1 :
        /\ calls[j].raised
        /\ out[j].result = None
        /\ ~calls[j + 1].raised
    /\ \E j \in 2 .. Len(calls) :
        /\ calls[j].raised
        /\ ~calls[j - 1].raised

C5_EmptyWindowsAreSkipped ==
    /\ Len(out) = Len(NonEmptyTested)
    /\ Len(calls) = Len(NonEmptyTested)
    /\ \A d \in Emitted : \E i \in 0 .. LastPosition : InInterval(i, d.begin_time, d.end_time)
    /\ \A j \in 1 .. Len(out) :
        /\ out[j].begin_time = NonEmptyTested[j].b
        /\ out[j].end_time = NonEmptyTested[j].e

C5_Witness ==
    /\ pc = "done"
    /\ Len(out) >= 2
    /\ Len(tested) > Len(out)
    /\ \E j \in 2 .. Len(tested) - 1 : tested[j].idx = {}

\* C6: the first window tested does not lie entirely before the series
\* start: not every instant of [begin_time, end_time) is earlier than time[0].
C6_FirstWindowReachesSeries ==
    tested # <<>> => ~(tested[1].e <= First(time))

\* what the fast-forward loop does guarantee: the first tested window does
\* not end before time[0]
C6_CodeFirstWindowEnd ==
    tested # <<>> => tested[1].e >= First(time)

CeilDiv(a, b) == 0 - ((0 - a) \div b)

AlignedOrigin == tested[1].b

\* C7 as stated: iterations, and emitted descriptors, are at most
\* ceil((time[-1] - aligned_origin) / time_step) + 1.
C7_IterationBound ==
    tested # <<>> =>
        /\ Len(tested) <= CeilDiv(Last(time) - AlignedOrigin, time_step) + 1
        /\ Len(out) <= CeilDiv(Last(time) - AlignedOrigin, time_step) + 1

\* C7 amended: iterations, and emitted descriptors, are at most
\* max(0, ceil((time[-1] - aligned_origin) / time_step)) + 1.
C7_IterationBoundClamped ==
    tested # <<>> =>
        /\ Len(tested) <= Max({0, CeilDiv(Last(time) - AlignedOrigin, time_step)}) + 1
        /\ Len(out) <= Max({0, CeilDiv(Last(time) - AlignedOrigin, time_step)}) + 1

C7_Witness ==
    /\ pc = "done"
    /\ Len(tested) >= 3
    /\ Len(tested) = CeilDiv(Last(time) - AlignedOrigin, time_step) + 1

C7_WitnessLateOrigin ==
    /\ pc = "done"
    /\ AlignedOrigin > Last(time) + time_step
    /\ Len(tested) = 1

\* the safety part of C8: every tested window but the last has
\* end_time < time[-1], the run ends at a window with end_time >= time[-1],
\* and nothing is enabled once the generator is done
C8_Safety ==
    /\ \A j \in 1 .. Len(tested) - 1 : tested[j].e < Last(time)
    /\ pc = "done" => (tested # <<>> /\ tested[Len(tested)].e >= Last(time))
    /\ (pc = "check" /\ tested[Len(tested)].e >= Last(time)) => ~ENABLED MoveWindow
    /\ pc = "done" => ~ENABLED Next

GridOrigin == ResolveOrigin(time0, time)
GridStart ==
    CHOOSE k \in 0 .. Max({0, First(time) - GridOrigin}) :
        /\ GridOrigin + k * time_step + window_length >= First(time)
        /\ \A n \in 0 .. k - 1 : GridOrigin + n * time_step + window_length < First(time)

Loaded == last_call # None /\ last_call[1].op = "load"
LoadedCall == last_call[1]
NamedGroup(c) == c.group_name \notin {None, <<"">>}
ReturnsMapping(c, v) == c.outcome = "return" /\ c.value = v /\ v.kind = "map"

C10_WitnessRaises ==
    /\ Loaded
    /\ LoadedCall.force
    /\ LoadedCall.memoized # None
    /\ LoadedCall.file.state = "missing"
    /\ LoadedCall.outcome = "SettingsError"

\* the last call, when it is a call of Settings.read_configuration_file
ReadDone == last_call # None /\ last_call[1].op = "read"
\* the cache entry of the last call's filename, after the call
EntryAfter == memoized_yaml[last_call[1].filename]

\* C12: a call of read_configuration_file opens the file if and only if
\* force is set or the filename is not memoized, and parses an existing file
\* under the same condition; a call without force on a memoized filename
\* returns the memoized document, whatever the file holds now, and leaves the
\* cache as it is; a parse that succeeds is returned and memoized; a parse
\* that fails raises SettingsError and leaves the cache entry unchanged.
C12_FileIsReadOnceAndMemoized ==
    ReadDone =>
        LET c == last_call[1]
            wanted == c.force \/ c.memoized = None
        IN
        /\ c.opened <=> wanted
        /\ c.file.state = "yaml" => (c.parsed <=> wanted)
        /\ c.file.state # "yaml" => ~c.parsed
        /\ ~wanted =>
            /\ c.outcome = "return"
            /\ c.value = c.memoized[1]
            /\ EntryAfter = c.memoized
        /\ c.parsed =>
            /\ c.outcome = "return"
            /\ c.value = c.file.document
            /\ EntryAfter = <<c.file.document>>
        /\ (wanted /\ c.file.state = "malformed") =>
            /\ c.outcome = "SettingsError"
            /\ EntryAfter = c.memoized
        /\ (wanted /\ c.file.state = "missing") => EntryAfter = c.memoized

\* a memoized document is returned although the file holds another one
C12_Witness ==
    /\ ReadDone
    /\ ~last_call[1].force
    /\ last_call[1].memoized # None
    /\ last_call[1].file.state = "yaml"
    /\ last_call[1].file.document # last_call[1].memoized[1]
    /\ last_call[1].outcome = "return"
    /\ last_call[1].value = last_call[1].memoized[1]
    /\ ~last_call[1].opened

\* a forced parse fails and the memoized document stays
C12_WitnessFailedParse ==
    /\ ReadDone
    /\ last_call[1].force
    /\ last_call[1].memoized # None
    /\ last_call[1].file.state = "malformed"
    /\ last_call[1].outcome = "SettingsError"
    /\ EntryAfter = last_call[1].memoized

Covered(i) == \E d \in Emitted : d.begin_index <= i /\ i <= d.end_index
OriginNotAfterStart == time0 = None \/ time0[1] <= First(time)

\* C13: with 0 < time_step <= window_length and time0 unset or not after
\* time[0], every position of the series, the last one included, lies in
\* [begin_index, end_index] of an emitted descriptor once the run is over.
C13_EverySampleIsCovered ==
    (pc = "done" /\ time_step <= window_length /\ OriginNotAfterStart) =>
        \A i \in 0 .. LastPosition : Covered(i)

\* what the code does cover: every sample before the end time of the last
\* tested window; a last sample at that end time is in no window
C13_CodeCoversUpToLastWindowEnd ==
    (pc = "done" /\ time_step <= window_length /\ OriginNotAfterStart) =>
        \A i \in 0 .. LastPosition :
            Covered(i) <=> TimeAt(i) < tested[Len(tested)].e

IsPrefix(a, b) == Len(a) <= Len(b) /\ SubSeq(b, 1, Len(a)) = a
TwinDone(g) == frames[g].pc = "done"

\* the outputs of the two calls agree at every moment: what one consumer has
\* pulled is a prefix of what the other has pulled, or the other way round,
\* and two finished calls have yielded the same sequence
C11_OutputsAgree ==
    \A g, h \in Generators :
        /\ IsPrefix(pulled[g], pulled[h]) \/ IsPrefix(pulled[h], pulled[g])
        /\ (TwinDone(g) /\ TwinDone(h)) => pulled[g] = pulled[h]

\* C11: two calls of moving_window with identical arguments and a pure
\* function yield identical sequences (same number of descriptors, equal in
\* all five fields), also when the two generators are consumed interleaved,
\* and the arguments, the series included, are never modified.
C11_IdenticalCallsYieldIdenticalSequences ==
    /\ []C11_OutputsAgree
    /\ [][UNCHANGED window_args]_vars

\* one call is over while the other is in the middle of its windows, and a
\* call of the function has raised
C11_Witness ==
    /\ TwinDone(1)
    /\ frames[2].pc = "test"
    /\ Len(pulled[1]) >= 3
    /\ Len(pulled[2]) = 1
    /\ \E j \in 1 .. Len(pulled[1]) : pulled[1][j].result = None
    /\ \E j \in 1 .. Len(pulled[1]) : pulled[1][j].result # None

C11_WitnessBothDone ==
    /\ TwinDone(1)
    /\ TwinDone(2)
    /\ Len(pulled[1]) >= 2
    /\ pulled[1] = pulled[2]

====
